---- MODULE Spec2Model ----
(***************************************************************************)
(* Rex: a push-based stream library (src/index.ts).  A Stream holds a      *)
(* subscribe procedure and a single mutable unsubscribe slot; the          *)
(* operators map, filter, debounceTime and withLatestFrom wrap an upstream *)
(* stream; the factories fromEvent, fromTimer and fromInterval wrap the    *)
(* host's listener and timer primitives.                                   *)
(*                                                                         *)
(* The host is single threaded: every step of the model is one host task   *)
(* run to completion (a timer callback, an event dispatch, or a call of    *)
(* subscribe/unsubscribe by the program), with every synchronous call it   *)
(* makes down or up the pipeline included.                                 *)
(*                                                                         *)
(* Host clock: `now` counts milliseconds.  A timer callback runs at its    *)
(* deadline; the clock does not pass a deadline, and an event is not       *)
(* dispatched, while a callback is due.  Several callbacks due at the same *)
(* instant run in either order.                                            *)
(***************************************************************************)
EXTENDS Integers, Sequences, FiniteSets, TLC

\* ------------------------------------------------------------- bounds
MaxTick == 6           \* cap on the _tick of an interval nothing stops
MaxTime == 4           \* horizon of the clock while an event target is in use
MaxDispatch == 2       \* events the host dispatches in a run
MaxUnsubscribe == 2    \* unsubscribe calls the program makes in a run
DebounceMs == 2        \* the ms given to debounceTime

\* ------------------------------------------------- program constants
SkipEvery == 10        \* skipN(10)
OneSecStopAt == 50     \* if (tick >= 50) $oneSecStream.unsubscribe?.()
TenthSecMs == 100      \* Stream.fromInterval(100)
HalfSecMs == 500       \* Stream.fromInterval(500)
OneSecMs == 1000       \* Stream.fromInterval(1000)
MixedStopAt == 5       \* if (halfSecTick >= 5) $mixedTimerStream.unsubscribe?.()
TimerMs == 300         \* the ms given to fromTimer

\* `let dataA: T; let dataB: U;` : the value of a variable never assigned.
\* Ticks and event payloads are >= 1, so 0 stands for undefined.
Undef == 0

\* The payloads the event target dispatches.
EventValues == {1, 2}

\* The callbacks the program passes to map and filter.
MapFn(v) == 10 * v + 1
FilterFn(v) == v % 2 = 1

\* ---------------------------------------------------------- pipelines
\* A stream is a node: its kind, its ms, and the stream(s) it was composed
\* from.  Stream.withLatestFrom(stream): compose(_withLatestFrom(stream))
\* makes the argument streamA and `this` streamB.
Source(kind, ms) ==
  [kind |-> kind, ms |-> ms, fn |-> "-", stream |-> 0, streamA |-> 0, streamB |-> 0]
Unary(kind, ms, fn, up) ==
  [kind |-> kind, ms |-> ms, fn |-> fn, stream |-> up, streamA |-> 0, streamB |-> 0]
Binary(a, b) ==
  [kind |-> "withLatestFrom", ms |-> 0, fn |-> "-", stream |-> 0, streamA |-> a, streamB |-> b]

\* nodes: the streams built, the last one the pipeline the program subscribes;
\* observer: what the subscribed observer's next callback does;
\* subscribes: how many times the program calls subscribe on the pipeline.
Pipelines ==
  [ interval  |-> [nodes |-> << Source("fromInterval", TenthSecMs) >>,
                   observer |-> "log", subscribes |-> 2],
    timer     |-> [nodes |-> << Source("fromTimer", TimerMs) >>,
                   observer |-> "log", subscribes |-> 1],
    mapped    |-> [nodes |-> << Source("fromEvent", 0), Unary("map", 0, "MapFn", 1) >>,
                   observer |-> "log", subscribes |-> 1],
    filtered  |-> [nodes |-> << Source("fromEvent", 0), Unary("filter", 0, "FilterFn", 1) >>,
                   observer |-> "log", subscribes |-> 1],
    oneSec    |-> [nodes |-> << Source("fromInterval", TenthSecMs),
                                Unary("filter", 0, "skipN", 1) >>,
                   observer |-> "oneSec", subscribes |-> 1],
    mixed     |-> [nodes |-> << Source("fromInterval", HalfSecMs),
                                Source("fromInterval", OneSecMs),
                                Binary(1, 2) >>,
                   observer |-> "mixed", subscribes |-> 1],
    debounced |-> [nodes |-> << Source("fromEvent", 0),
                                Unary("debounceTime", DebounceMs, "-", 1) >>,
                   observer |-> "log", subscribes |-> 1],
    \* fromInterval(100).filter(fn).map(fn).debounceTime(ms)
    chain     |-> [nodes |-> << Source("fromInterval", TenthSecMs),
                                Unary("filter", 0, "FilterFn", 1),
                                Unary("map", 0, "MapFn", 2),
                                Unary("debounceTime", DebounceMs, "-", 3) >>,
                   observer |-> "log", subscribes |-> 1],
    \* fromEvent(...).debounceTime(ms), subscribed by two observers
    shared    |-> [nodes |-> << Source("fromEvent", 0),
                                Unary("debounceTime", DebounceMs, "-", 1) >>,
                   observer |-> "log", subscribes |-> 2],
    \* fromEvent(...).withLatestFrom(fromEvent(...)), subscribed again later
    paired    |-> [nodes |-> << Source("fromEvent", 0), Source("fromEvent", 0),
                                Binary(1, 2) >>,
                   observer |-> "log", subscribes |-> 2],
    \* new Stream(subscribe).map(fn): a source built without an unsubscribe
    bare      |-> [nodes |-> << Source("Stream", 0), Unary("map", 0, "MapFn", 1) >>,
                   observer |-> "log", subscribes |-> 1] ]

PipelineNames == DOMAIN Pipelines

VARIABLES
  pipe,            \* the pipeline this run builds
  now,             \* the host clock
  timers,          \* the host's timers, by handle: setTimeout / setInterval
  subs,            \* the closures made by the subscribe calls, in order
  unsubscribe,     \* per stream: the Stream.unsubscribe slot (0: undefined)
  _timer,          \* per debounceTime stream: the transformer's `_timer`
  dataA, dataB,    \* per withLatestFrom stream: the transformer's buffers
  shouldComplete,  \* per withLatestFrom stream: the transformer's flag
  counter,         \* per filter(skipN) stream: skipN's `counter`
  log,             \* per subscribed observer: the callbacks it received
  torn,            \* history: the sources whose teardown ran, in order
  calls,           \* history: the subscribe/unsubscribe calls made, in order
  pushed           \* history: the events dispatched to a listener

vars == << pipe, now, timers, subs, unsubscribe, _timer, dataA, dataB,
           shouldComplete, counter, log, torn, calls, pushed >>

Nodes == Pipelines[pipe].nodes
Node(n) == Nodes[n]
NodeIds == DOMAIN Nodes
Root == Len(Nodes)
HasEvents == \E n \in NodeIds : Node(n).kind = "fromEvent"
HasTimers == \E n \in NodeIds : Node(n).kind \in {"fromInterval", "fromTimer", "debounceTime"}

\* The part of the state a synchronous call chain reads and writes.
State ==
  [ now |-> now, timers |-> timers, subs |-> subs, unsubscribe |-> unsubscribe,
    _timer |-> _timer, dataA |-> dataA, dataB |-> dataB,
    shouldComplete |-> shouldComplete, counter |-> counter, log |-> log,
    torn |-> torn, calls |-> calls ]

\* --------------------------------------------------- observers, timers
\* A derived observer is the object literal an operator passes upstream: it
\* belongs to the subscribe closure `sub` (side: which of withLatestFrom's
\* two literals).  ext # 0: the observer the program subscribed.
External(k) == [ext |-> k, sub |-> 0, side |-> "-"]
Derived(j, side) == [ext |-> 0, sub |-> j, side |-> side]

NewSub(n, observer, timer, listening) ==
  [node |-> n, observer |-> observer, _tick |-> 0, _timer |-> timer,
   listening |-> listening]

\* setTimeout (period 0) / setInterval: the handle is the position in timers.
NewTimer(S, ms, period, j, data) ==
  [active |-> TRUE, deadline |-> S.now + ms, period |-> period, sub |-> j,
   data |-> data]

\* clearTimeout / clearInterval: no effect on a handle that is not pending.
ClearTimer(S, t) ==
  IF t \in DOMAIN S.timers
    THEN [S EXCEPT !.timers[t].active = FALSE]
    ELSE S

\* Faulty variant: a predicate that passes the call after the n-th.
SkipNPassOffByOne(c) == (c + 1) % SkipEvery = 1

\* skipN's returned predicate: counter = (counter + 1) % n; counter === 0
SkipNCount(c) == (c + 1) % SkipEvery
SkipNPass(c) == SkipNCount(c) = 0

\* What the subscribed observer's next callback does after logging.
ObserverStops(v) ==
  CASE Pipelines[pipe].observer = "oneSec" -> v >= OneSecStopAt
    [] Pipelines[pipe].observer = "mixed"  -> v[1] >= MixedStopAt
    [] OTHER -> FALSE

\* A call of subscribe or unsubscribe on the stream n, by the program's top
\* level ("program") or from inside the observer's next ("observer").
Call(S, op, n, by) == [op |-> op, node |-> n, at |-> S.now, by |-> by]

NextEntry(S, v) == [type |-> "next", value |-> v, at |-> S.now]
CompleteEntry(S) == [type |-> "complete", value |-> Undef, at |-> S.now]

\* ------------------------------------------------ the synchronous calls
RECURSIVE Subscribe(_, _, _), ObserverNext(_, _, _), ObserverComplete(_, _),
          Unsubscribe(_, _)

\* stream.subscribe(observer), for the stream n.
\* Faulty variant: a second subscribe keeps the first teardown in the slot.
SubscribeIntervalKeepSlot(S, n, observer) ==
  LET j == Len(S.subs) + 1
      t == Len(S.timers) + 1
  IN [S EXCEPT !.subs = Append(@, NewSub(n, observer, t, FALSE)),
               !.timers = Append(@, NewTimer(S, Node(n).ms, Node(n).ms, j, Undef)),
               !.unsubscribe[n] = IF @ = 0 THEN j ELSE @]

SubscribeInterval(S, n, observer) ==
  LET j == Len(S.subs) + 1
      t == Len(S.timers) + 1
  IN [S EXCEPT !.subs = Append(@, NewSub(n, observer, t, FALSE)),
               !.timers = Append(@, NewTimer(S, Node(n).ms, Node(n).ms, j, Undef)),
               !.unsubscribe[n] = j]

\* Faulty variant: the timeout re-arms itself like an interval.
SubscribeTimerRepeating(S, n, observer) ==
  LET j == Len(S.subs) + 1
      t == Len(S.timers) + 1
  IN [S EXCEPT !.subs = Append(@, NewSub(n, observer, t, FALSE)),
               !.timers = Append(@, NewTimer(S, Node(n).ms, Node(n).ms, j, Undef)),
               !.unsubscribe[n] = j]

SubscribeTimer(S, n, observer) ==
  LET j == Len(S.subs) + 1
      t == Len(S.timers) + 1
  IN [S EXCEPT !.subs = Append(@, NewSub(n, observer, t, FALSE)),
               !.timers = Append(@, NewTimer(S, Node(n).ms, 0, j, Undef)),
               !.unsubscribe[n] = j]

SubscribeEvent(S, n, observer) ==
  LET j == Len(S.subs) + 1
  IN [S EXCEPT !.subs = Append(@, NewSub(n, observer, 0, TRUE)),
               !.unsubscribe[n] = j]

\* new Stream(subscribe) with no unsubscribe argument: the slot stays undefined.
SubscribeBare(S, n, observer) ==
  [S EXCEPT !.subs = Append(@, NewSub(n, observer, 0, FALSE))]

\* map, filter, debounceTime: subscribe upstream, then set the slot.
SubscribeUnary(S, n, observer) ==
  LET j == Len(S.subs) + 1
      S1 == [S EXCEPT !.subs = Append(@, NewSub(n, observer, 0, FALSE))]
      S2 == Subscribe(S1, Node(n).stream, Derived(j, "-"))
  IN [S2 EXCEPT !.unsubscribe[n] = j]

\* withLatestFrom: streamA.subscribe, streamB.subscribe, then set the slot.
SubscribeWithLatestFrom(S, n, observer) ==
  LET j == Len(S.subs) + 1
      S1 == [S EXCEPT !.subs = Append(@, NewSub(n, observer, 0, FALSE))]
      S2 == Subscribe(S1, Node(n).streamA, Derived(j, "A"))
      S3 == Subscribe(S2, Node(n).streamB, Derived(j, "B"))
  IN [S3 EXCEPT !.unsubscribe[n] = j]

Subscribe(S, n, observer) ==
  CASE Node(n).kind = "fromInterval"   -> SubscribeInterval(S, n, observer)
    [] Node(n).kind = "fromTimer"      -> SubscribeTimer(S, n, observer)
    [] Node(n).kind = "fromEvent"      -> SubscribeEvent(S, n, observer)
    [] Node(n).kind = "Stream"         -> SubscribeBare(S, n, observer)
    [] Node(n).kind = "withLatestFrom" -> SubscribeWithLatestFrom(S, n, observer)
    [] OTHER                           -> SubscribeUnary(S, n, observer)

\* The subscribed observer: next logs, then may unsubscribe the pipeline.
ExternalNext(S, k, v) ==
  LET S1 == [S EXCEPT !.log[k] = Append(@, NextEntry(S, v))]
  IN IF ObserverStops(v)
       THEN Unsubscribe([S1 EXCEPT !.calls = Append(@, Call(S, "unsubscribe", Root, "observer"))],
                        Root)
       ELSE S1

ExternalComplete(S, k) ==
  [S EXCEPT !.log[k] = Append(@, CompleteEntry(S))]

\* Faulty variant: a map that forwards the value without applying fn.
MapNextRaw(S, j, v) == ObserverNext(S, S.subs[j].observer, v)

\* _map: next: (data) => observer.next(fn(data)); complete: observer.complete
MapNext(S, j, v) == ObserverNext(S, S.subs[j].observer, MapFn(v))
MapComplete(S, j) == ObserverComplete(S, S.subs[j].observer)

\* Faulty variant: a filter that forwards every value.
FilterNextAll(S, j, v) == ObserverNext(S, S.subs[j].observer, v)

\* _filter: next: (data) => (fn(data) ? observer.next(data) : noOp())
FilterNext(S, j, v) ==
  LET n == S.subs[j].node IN
  IF Node(n).fn = "skipN"
    THEN LET S1 == [S EXCEPT !.counter[n] = SkipNCount(@)]
         IN IF SkipNPass(S.counter[n])
              THEN ObserverNext(S1, S.subs[j].observer, v)
              ELSE S1
    ELSE IF FilterFn(v) THEN ObserverNext(S, S.subs[j].observer, v) ELSE S
FilterComplete(S, j) == ObserverComplete(S, S.subs[j].observer)

\* Faulty variant: a debounce that schedules without clearing the pending timer.
DebounceNextNoClear(S, j, v) ==
  LET n == S.subs[j].node
      t == Len(S.timers) + 1
  IN [S EXCEPT !.timers = Append(@, NewTimer(S, Node(n).ms, 0, j, v)),
               !._timer[n] = t]

\* Faulty variant: a debounce whose next clears the pending timer only when
\* its own subscription scheduled it.
DebounceNextOwnTimer(S, j, v) ==
  LET n == S.subs[j].node
      S1 == IF S._timer[n] # 0 /\ S.timers[S._timer[n]].sub = j
              THEN [ClearTimer(S, S._timer[n]) EXCEPT !._timer[n] = 0]
              ELSE S
      t == Len(S1.timers) + 1
  IN [S1 EXCEPT !.timers = Append(@, NewTimer(S1, Node(n).ms, 0, j, v)),
                !._timer[n] = t]

\* debounceTime: next clears the pending timer and schedules the delivery.
DebounceNext(S, j, v) ==
  LET n == S.subs[j].node
      S1 == IF S._timer[n] # 0
              THEN [ClearTimer(S, S._timer[n]) EXCEPT !._timer[n] = 0]
              ELSE S
      t == Len(S1.timers) + 1
  IN [S1 EXCEPT !.timers = Append(@, NewTimer(S1, Node(n).ms, 0, j, v)),
                !._timer[n] = t]

\* Faulty variant: a debounce whose complete leaves the pending timer.
DebounceCompleteNoClear(S, j) == ObserverComplete(S, S.subs[j].observer)

\* debounceTime: complete: if (_timer) clearTimeout(_timer); observer.complete()
DebounceComplete(S, j) ==
  LET n == S.subs[j].node
      S1 == IF S._timer[n] # 0 THEN ClearTimer(S, S._timer[n]) ELSE S
  IN ObserverComplete(S1, S.subs[j].observer)

\* Faulty variant: a withLatestFrom that holds tuples back until both sides
\* have emitted.
WithLatestFromNextWhenBoth(S, j, side, v) ==
  LET n == S.subs[j].node
      S1 == IF side = "A" THEN [S EXCEPT !.dataA[n] = v]
                          ELSE [S EXCEPT !.dataB[n] = v]
  IN IF S1.dataA[n] # Undef /\ S1.dataB[n] # Undef
       THEN ObserverNext(S1, S.subs[j].observer, << S1.dataA[n], S1.dataB[n] >>)
       ELSE S1

\* _withLatestFrom: next of the A and of the B literal.
\* Faulty variant: the tuple is built from the values held before the store.
WithLatestFromNextStale(S, j, side, v) ==
  LET n == S.subs[j].node
      S1 == IF side = "A" THEN [S EXCEPT !.dataA[n] = v]
                          ELSE [S EXCEPT !.dataB[n] = v]
  IN ObserverNext(S1, S.subs[j].observer, << S.dataA[n], S.dataB[n] >>)

WithLatestFromNext(S, j, side, v) ==
  LET n == S.subs[j].node
      S1 == IF side = "A" THEN [S EXCEPT !.dataA[n] = v]
                          ELSE [S EXCEPT !.dataB[n] = v]
  IN ObserverNext(S1, S.subs[j].observer, << S1.dataA[n], S1.dataB[n] >>)

\* Faulty variant: the flag is cleared once complete has been delivered.
WithLatestFromCompleteReset(S, j) ==
  LET n == S.subs[j].node IN
  IF ~S.shouldComplete[n]
    THEN [S EXCEPT !.shouldComplete[n] = TRUE]
    ELSE [ObserverComplete(S, S.subs[j].observer) EXCEPT !.shouldComplete[n] = FALSE]

\* _withLatestFrom: complete of either literal (the same code, the same flag).
WithLatestFromComplete(S, j) ==
  LET n == S.subs[j].node IN
  IF ~S.shouldComplete[n]
    THEN [S EXCEPT !.shouldComplete[n] = TRUE]
    ELSE ObserverComplete(S, S.subs[j].observer)

ObserverNext(S, observer, v) ==
  IF observer.ext # 0 THEN ExternalNext(S, observer.ext, v)
  ELSE LET j == observer.sub
           kind == Node(S.subs[j].node).kind
       IN CASE kind = "map"            -> MapNext(S, j, v)
            [] kind = "filter"         -> FilterNext(S, j, v)
            [] kind = "debounceTime"   -> DebounceNext(S, j, v)
            [] kind = "withLatestFrom" -> WithLatestFromNext(S, j, observer.side, v)

ObserverComplete(S, observer) ==
  IF observer.ext # 0 THEN ExternalComplete(S, observer.ext)
  ELSE LET j == observer.sub
           kind == Node(S.subs[j].node).kind
       IN CASE kind = "map"            -> MapComplete(S, j)
            [] kind = "filter"         -> FilterComplete(S, j)
            [] kind = "debounceTime"   -> DebounceComplete(S, j)
            [] kind = "withLatestFrom" -> WithLatestFromComplete(S, j)

\* Faulty variant: a teardown that completes but leaves the timer scheduled.
TeardownTimerLeak(S, n, j) ==
  [ObserverComplete(S, S.subs[j].observer) EXCEPT !.torn = Append(@, n)]

\* Faulty variant: a teardown that does nothing once its timer is cleared.
TeardownTimerOnce(S, n, j) ==
  IF S.timers[S.subs[j]._timer].active
    THEN LET S1 == ObserverComplete(S, S.subs[j].observer)
             S2 == ClearTimer(S1, S.subs[j]._timer)
         IN [S2 EXCEPT !.torn = Append(@, n)]
    ELSE S

\* The closure a source's subscribe stored in its slot, for the closure j:
\* observer.complete(); clearInterval(_timer) / clearTimeout(_timer)
TeardownTimer(S, n, j) ==
  LET S1 == ObserverComplete(S, S.subs[j].observer)
      S2 == ClearTimer(S1, S.subs[j]._timer)
  IN [S2 EXCEPT !.torn = Append(@, n)]

\* observer.complete(); target.removeEventListener(type, observer.next)
TeardownEvent(S, n, j) ==
  LET S1 == ObserverComplete(S, S.subs[j].observer)
  IN [S1 EXCEPT !.subs[j].listening = FALSE, !.torn = Append(@, n)]

\* Faulty variant: an operator whose unsubscribe does not reach upstream.
UnsubscribeUpstreamNothing(S, n) == S

\* _map, _filter: if (typeof stream.unsubscribe === 'function') stream.unsubscribe()
UnsubscribeUpstream(S, n) == Unsubscribe(S, Node(n).stream)

\* debounceTime: if (_timer) clearTimeout(_timer); then as map and filter.
UnsubscribeDebounce(S, n) ==
  LET S1 == IF S._timer[n] # 0 THEN ClearTimer(S, S._timer[n]) ELSE S
  IN Unsubscribe(S1, Node(n).stream)

\* Faulty variant: a withLatestFrom that tears down streamA before streamB.
UnsubscribeWithLatestFromAFirst(S, n) ==
  Unsubscribe(Unsubscribe(S, Node(n).streamA), Node(n).streamB)

\* _withLatestFrom: streamB.unsubscribe(), then streamA.unsubscribe().
UnsubscribeWithLatestFrom(S, n) ==
  Unsubscribe(Unsubscribe(S, Node(n).streamB), Node(n).streamA)

\* stream.unsubscribe?.() for the stream n: nothing while the slot is undefined.
Unsubscribe(S, n) ==
  LET j == S.unsubscribe[n] IN
  IF j = 0 THEN S
  ELSE CASE Node(n).kind \in {"fromInterval", "fromTimer"} -> TeardownTimer(S, n, j)
         [] Node(n).kind = "fromEvent"      -> TeardownEvent(S, n, j)
         [] Node(n).kind = "debounceTime"   -> UnsubscribeDebounce(S, n)
         [] Node(n).kind = "withLatestFrom" -> UnsubscribeWithLatestFrom(S, n)
         [] OTHER                           -> UnsubscribeUpstream(S, n)

\* A timer's callback, run by the host at its deadline.
\* fromInterval / fromTimer: _tick += 1; observer.next(_tick)
\* debounceTime: () => observer.next(data)
TimerCallback(S, t) ==
  LET tm == S.timers[t]
      j == tm.sub
      kind == Node(S.subs[j].node).kind
      S1 == IF tm.period = 0
              THEN [S EXCEPT !.timers[t].active = FALSE]
              ELSE [S EXCEPT !.timers[t].deadline = @ + tm.period]
  IN IF kind = "debounceTime"
       THEN ObserverNext(S1, S.subs[j].observer, tm.data)
       ELSE ObserverNext([S1 EXCEPT !.subs[j]._tick = @ + 1],
                         S.subs[j].observer, S.subs[j]._tick + 1)

\* The target dispatches one event: the listeners registered when dispatch
\* starts are called in registration order, unless removed meanwhile.
RECURSIVE DispatchFrom(_, _, _, _)
DispatchFrom(S, i, last, v) ==
  IF i > last THEN S
  ELSE IF S.subs[i].listening
         THEN DispatchFrom(ObserverNext(S, S.subs[i].observer, v), i + 1, last, v)
         ELSE DispatchFrom(S, i + 1, last, v)

DispatchEvent(S, v) == DispatchFrom(S, 1, Len(S.subs), v)

\* ------------------------------------------------------------- the host
Due(t) == timers[t].active /\ timers[t].deadline <= now
NoneDue == \A t \in DOMAIN timers : ~Due(t)
ActiveTimers == {t \in DOMAIN timers : timers[t].active}
Min(set) == CHOOSE x \in set : \A y \in set : x <= y
NextDeadline == Min({timers[t].deadline : t \in ActiveTimers})

Count(op) ==
  Cardinality({i \in DOMAIN calls : calls[i].op = op /\ calls[i].by = "program"})

\* The state after a call chain: a task runs to completion within one step.
Commit(S) ==
  /\ timers' = S.timers
  /\ subs' = S.subs
  /\ unsubscribe' = S.unsubscribe
  /\ _timer' = S._timer
  /\ dataA' = S.dataA
  /\ dataB' = S.dataB
  /\ shouldComplete' = S.shouldComplete
  /\ counter' = S.counter
  /\ log' = S.log
  /\ torn' = S.torn
  /\ calls' = S.calls

\* Faulty variant: the source factory starts its timer when the pipeline is
\* built instead of when it is subscribed.
InitEager ==
  /\ pipe \in PipelineNames
  /\ now = 0
  /\ timers = IF Node(1).kind \in {"fromInterval", "fromTimer"}
                THEN << [active |-> TRUE, deadline |-> Node(1).ms,
                         period |-> Node(1).ms, sub |-> 0, data |-> Undef] >>
                ELSE << >>
  /\ subs = << >>
  /\ unsubscribe = [n \in DOMAIN Pipelines[pipe].nodes |-> 0]
  /\ _timer = [n \in DOMAIN Pipelines[pipe].nodes |-> 0]
  /\ dataA = [n \in DOMAIN Pipelines[pipe].nodes |-> Undef]
  /\ dataB = [n \in DOMAIN Pipelines[pipe].nodes |-> Undef]
  /\ shouldComplete = [n \in DOMAIN Pipelines[pipe].nodes |-> FALSE]
  /\ counter = [n \in DOMAIN Pipelines[pipe].nodes |-> 0]
  /\ log = [k \in 1..Pipelines[pipe].subscribes |-> << >>]
  /\ torn = << >>
  /\ calls = << >>
  /\ pushed = << >>

Init ==
  /\ pipe \in PipelineNames
  /\ now = 0
  /\ timers = << >>
  /\ subs = << >>
  /\ unsubscribe = [n \in DOMAIN Pipelines[pipe].nodes |-> 0]
  /\ _timer = [n \in DOMAIN Pipelines[pipe].nodes |-> 0]
  /\ dataA = [n \in DOMAIN Pipelines[pipe].nodes |-> Undef]
  /\ dataB = [n \in DOMAIN Pipelines[pipe].nodes |-> Undef]
  /\ shouldComplete = [n \in DOMAIN Pipelines[pipe].nodes |-> FALSE]
  /\ counter = [n \in DOMAIN Pipelines[pipe].nodes |-> 0]
  /\ log = [k \in 1..Pipelines[pipe].subscribes |-> << >>]
  /\ torn = << >>
  /\ calls = << >>
  /\ pushed = << >>

\* How many unsubscribe calls the program makes: the twice-subscribed
\* debounce is explored with one, the other pipelines with MaxUnsubscribe.
Unsubscribes == IF pipe = "shared" THEN 1 ELSE MaxUnsubscribe

\* The program subscribes a new observer to the pipeline.
CallSubscribe ==
  /\ Count("subscribe") < Pipelines[pipe].subscribes
  /\ Commit(Subscribe([State EXCEPT !.calls = Append(@, Call(State, "subscribe", Root, "program"))],
                      Root, External(Count("subscribe") + 1)))
  /\ UNCHANGED << pipe, now, pushed >>

\* The program calls n.unsubscribe?.() on a stream it built.
CallUnsubscribe(n) ==
  /\ Count("unsubscribe") < Unsubscribes
  /\ Commit(Unsubscribe([State EXCEPT !.calls = Append(@, Call(State, "unsubscribe", n, "program"))],
                        n))
  /\ UNCHANGED << pipe, now, pushed >>

\* The host runs the callback of a timer that is due.  ($oneSecStream's only
\* interval is stopped by its observer; elsewhere _tick is capped.)
TimerFire(t) ==
  /\ Due(t)
  /\ Pipelines[pipe].observer # "oneSec" => subs[timers[t].sub]._tick < MaxTick
  /\ Commit(TimerCallback(State, t))
  /\ UNCHANGED << pipe, now, pushed >>

\* The event target dispatches an event of the listened type.
Dispatch(v) ==
  /\ NoneDue
  /\ Len(pushed) < MaxDispatch
  /\ \E j \in DOMAIN subs : subs[j].listening
  /\ Commit(DispatchEvent(State, v))
  /\ pushed' = Append(pushed, [value |-> v, at |-> now])
  /\ UNCHANGED << pipe, now >>

\* Time passes: to the next instant an event may arrive at (one ms on) when
\* the pipeline listens to an event target, else to the next deadline.  The
\* clock is read by timers only: it stands still in a pipeline without one.
Advance ==
  /\ NoneDue
  /\ HasTimers
  /\ IF HasEvents
       THEN now < MaxTime /\ now' = now + 1
       ELSE ActiveTimers # {} /\ now' = NextDeadline
  /\ UNCHANGED << pipe, timers, subs, unsubscribe, _timer, dataA, dataB,
                  shouldComplete, counter, log, torn, calls, pushed >>

Next ==
  \/ CallSubscribe
  \/ \E n \in NodeIds : CallUnsubscribe(n)
  \/ \E t \in DOMAIN timers : TimerFire(t)
  \/ \E v \in EventValues : Dispatch(v)
  \/ Advance

Spec == Init /\ [][Next]_vars

\* ============================================================== claims
IsNext(e) == e.type = "next"
IsComplete(e) == e.type = "complete"
Nexts(l) == SelectSeq(l, IsNext)
Completes(l) == SelectSeq(l, IsComplete)
Observers == DOMAIN log
SubsOf(n) == {j \in DOMAIN subs : subs[j].node = n}
\* The source n has fired: one of its callbacks called next.
Fired(n) == \E j \in SubsOf(n) : subs[j]._tick >= 1
\* The source n has delivered complete: its teardown ran.
Completed(n) == \E i \in DOMAIN torn : torn[i] = n
SubscribedOnce ==
  Cardinality({i \in DOMAIN calls : calls[i].op = "subscribe"}) = 1
UnsubscribeCalls == {i \in DOMAIN calls : calls[i].op = "unsubscribe"}

\* C1: in $mixedTimerStream (withLatestFrom of two interval streams),
\* complete reaches the subscribed observer only after streamA and streamB
\* have each delivered complete at least once.
C1_CompleteOnlyAfterBoth ==
  pipe = "mixed" =>
    \A k \in Observers :
      Completes(log[k]) # << >> => Completed(1) /\ Completed(2)

\* C2: in $mixedTimerStream subscribed once, a tuple has reached the observer
\* only if the 500 ms and the 1000 ms interval have each fired.
C2_FirstTupleAfterBothFired ==
  (pipe = "mixed" /\ SubscribedOnce) =>
    (Nexts(log[1]) # << >> => Fired(1) /\ Fired(2))

\* C3: for every pipeline and every subscribed observer, no next follows a
\* complete in what the observer received.
C3_NoNextAfterComplete ==
  \A k \in Observers :
    \A i, j \in DOMAIN log[k] :
      (i < j /\ IsComplete(log[k][i])) => ~IsNext(log[k][j])

\* The same, outside withLatestFrom.
NoNextAfterCompleteElsewhere == pipe \notin {"mixed", "paired"} => C3_NoNextAfterComplete

\* C2 as amended: the first tuple reaches the observer as soon as either
\* interval has fired, with the other component undefined: [1, undefined] at
\* 500 ms, before the 1000 ms interval has fired, when no unsubscribe call
\* came first.  Only a tuple with both components defined shows that both
\* intervals have fired.
C2_FirstTupleOnFirstFiring ==
  (pipe = "mixed" /\ SubscribedOnce) =>
    LET nx == Nexts(log[1]) IN
    /\ (Fired(1) \/ Fired(2)) => nx # << >>
    /\ nx # << >> => nx[1].value \in { << 1, Undef >>, << Undef, 1 >> }
    /\ (nx # << >> /\ UnsubscribeCalls = {})
         => nx[1] = [type |-> "next", value |-> << 1, Undef >>, at |-> HalfSecMs]
    /\ \A i \in DOMAIN nx :
         (nx[i].value[1] # Undef /\ nx[i].value[2] # Undef) => Fired(1) /\ Fired(2)

C2_Witness ==
  /\ pipe = "mixed"
  /\ SubscribedOnce
  /\ Len(log[1]) = 1
  /\ IsNext(log[1][1])
  /\ log[1][1].value = << 1, Undef >>
  /\ log[1][1].at = HalfSecMs
  /\ ~Fired(2)

\* The unsubscribe calls made after the (first) subscribe call.
EffectiveUnsubscribes ==
  {i \in UnsubscribeCalls : \E s \in 1..(i - 1) : calls[s].op = "subscribe"}
SubscribeThenUnsubscribe(n) ==
  /\ Len(calls) = 2
  /\ calls[1].op = "subscribe"
  /\ calls[2].op = "unsubscribe"
  /\ calls[2].node = n
Last(l) == l[Len(l)]
Values(l) == [i \in DOMAIN l |-> l[i].value]

\* C4: fromInterval(ms) subscribed, then unsubscribed after k ticks: the
\* observer has received next(1..k), one per ms, then exactly one complete,
\* and no timer remains scheduled (so nothing more is delivered).
C4_IntervalUnsubscribe ==
  (pipe = "interval" /\ SubscribeThenUnsubscribe(1)) =>
    LET k == subs[1]._tick IN
    /\ ActiveTimers = {}
    /\ Len(log[1]) = k + 1
    /\ \A i \in 1..k :
         log[1][i] = [type |-> "next", value |-> i,
                      at |-> calls[1].at + i * TenthSecMs]
    /\ log[1][k + 1] = [type |-> "complete", value |-> Undef, at |-> calls[2].at]

C4_Witness ==
  /\ pipe = "interval"
  /\ SubscribeThenUnsubscribe(1)
  /\ subs[1]._tick >= 2
  /\ Len(Completes(log[1])) = 1

\* C5: debounceTime(ms) over an event source, subscribed and not
\* unsubscribed: what the observer has received is, in order, one next per
\* burst, carrying the burst's last value, ms after that value arrived.  A
\* value ends a burst when the following one arrives ms or more later, or
\* when it is the latest and ms have passed.
C5_DebounceBurst ==
  (pipe = "debounced" /\ Len(calls) = 1 /\ calls[1].op = "subscribe") =>
    LET n == Len(pushed)
        Quiet(i) == IF i < n
                      THEN pushed[i + 1].at - pushed[i].at >= DebounceMs
                      ELSE now >= pushed[i].at + DebounceMs
        ends == SelectSeq([i \in 1..n |-> i], Quiet)
        Delivery(i) == [type |-> "next", value |-> pushed[i].value,
                        at |-> pushed[i].at + DebounceMs]
        Expected(m) == [i \in 1..m |-> Delivery(ends[i])]
        Same(l, m) == Len(l) = m /\ \A i \in 1..m : l[i] = Expected(m)[i]
    IN \/ Same(log[1], Len(ends))
       \* the last delivery is due at this instant and its callback has not run
       \/ /\ n >= 1
          /\ now = pushed[n].at + DebounceMs
          /\ Due(_timer[2])
          /\ Same(log[1], Len(ends) - 1)

C5_Witness ==
  /\ pipe = "debounced"
  /\ Len(calls) = 1
  /\ Len(pushed) >= 2
  /\ pushed[2].at - pushed[1].at < DebounceMs
  /\ pushed[2].at > pushed[1].at
  /\ pushed[1].value # pushed[2].value
  /\ Len(log[1]) = 1
  /\ log[1][1].value = pushed[2].value
  /\ now > pushed[2].at + DebounceMs

\* C6: debounceTime(ms) over an event source, subscribed once: every
\* unsubscribe call after the subscribe (of the source: an upstream complete;
\* or of the debounced stream) delivers complete to the observer in that
\* same step; from then on no delivery is scheduled and no next was
\* delivered after the complete, so a value pending then is never delivered.
C6_CompleteDiscardsPending ==
  (pipe = "debounced" /\ SubscribedOnce) =>
    LET cs == Completes(log[1])
        eff == SelectSeq(calls, LAMBDA c : c.op = "unsubscribe")
        live == calls[1].op = "subscribe"
    IN live =>
       /\ Len(cs) = Len(eff)
       /\ \A m \in DOMAIN cs : cs[m].at = eff[m].at
       /\ cs # << >> =>
            /\ ActiveTimers = {}
            /\ \A i \in DOMAIN log[1] :
                 IsNext(log[1][i]) =>
                   /\ log[1][i].at <= cs[1].at
                   /\ \A j \in 1..i : IsNext(log[1][j])

C6_Witness ==
  /\ pipe = "debounced"
  /\ SubscribedOnce
  /\ calls[1].op = "subscribe"
  /\ Len(pushed) >= 1
  /\ Len(log[1]) = 1
  /\ IsComplete(log[1][1])
  /\ log[1][1].at < Last(pushed).at + DebounceMs
  /\ now > Last(pushed).at + DebounceMs

\* C7: map(fn) over an event source, subscribed once: the values received
\* are fn of the values pushed, in order; each upstream complete is received
\* once; after one upstream complete the observer has received the mapped
\* values and then exactly one complete.
C7_MapElementwise ==
  (pipe = "mapped" /\ SubscribedOnce) =>
    LET nx == Nexts(log[1]) IN
    /\ Len(nx) = Len(pushed)
    /\ \A i \in DOMAIN nx : nx[i].value = MapFn(pushed[i].value)
    /\ Len(Completes(log[1])) = Cardinality(EffectiveUnsubscribes)
    /\ Cardinality(EffectiveUnsubscribes) = 1 =>
         /\ Len(log[1]) = Len(pushed) + 1
         /\ IsComplete(Last(log[1]))

C7_Witness ==
  /\ pipe = "mapped"
  /\ Len(pushed) >= 2
  /\ pushed[1].value # pushed[2].value
  /\ Cardinality(EffectiveUnsubscribes) = 1
  /\ IsComplete(Last(log[1]))

\* C8: filter(fn) over an event source, subscribed once: the values received
\* are the values pushed for which fn holds, in order; a dropped value calls
\* nothing (the observer's callbacks number the passed values plus the
\* completes); each upstream complete is received once.
C8_FilterSelects ==
  (pipe = "filtered" /\ SubscribedOnce) =>
    LET nx == Nexts(log[1])
        kept == SelectSeq(Values(pushed), FilterFn)
    IN /\ Len(nx) = Len(kept)
       /\ \A i \in DOMAIN nx : nx[i].value = kept[i]
       /\ Len(Completes(log[1])) = Cardinality(EffectiveUnsubscribes)
       /\ Len(log[1]) = Len(kept) + Cardinality(EffectiveUnsubscribes)

C8_Witness ==
  /\ pipe = "filtered"
  /\ Len(pushed) >= 2
  /\ Len(Nexts(log[1])) = Len(pushed) - 1
  /\ ~FilterFn(pushed[1].value)
  /\ Len(Completes(log[1])) = 1

\* C9: fromInterval(100).filter(skipN(10)) subscribed once: the observer
\* receives exactly the ticks 10, 20, 30, ... in order, one per second; with
\* no unsubscribe call but the observer's own (made inside next on reaching
\* 50), it then receives nothing but one complete, and the timer is cleared.
C9_OneSecStream ==
  (pipe = "oneSec" /\ SubscribedOnce) =>
    LET tick == subs[2]._tick
        nx == Nexts(log[1])
    IN /\ Len(nx) = tick \div SkipEvery
       /\ \A i \in DOMAIN nx :
            nx[i] = [type |-> "next", value |-> i * SkipEvery,
                     at |-> calls[1].at + i * SkipEvery * TenthSecMs]
       /\ (calls[1].op = "subscribe"
           /\ \A i \in UnsubscribeCalls : calls[i].by = "observer") =>
            /\ tick <= OneSecStopAt
            /\ tick < OneSecStopAt => Len(log[1]) = Len(nx) /\ Len(calls) = 1
            /\ tick = OneSecStopAt =>
                 /\ Len(calls) = 2
                 /\ ActiveTimers = {}
                 /\ Len(log[1]) = Len(nx) + 1
                 /\ IsComplete(Last(log[1]))

C9_Witness ==
  /\ pipe = "oneSec"
  /\ Len(calls) = 2
  /\ calls[2].by = "observer"
  /\ Values(Nexts(log[1])) = << 10, 20, 30, 40, 50 >>
  /\ Len(log[1]) = 6
  /\ IsComplete(log[1][6])

\* C10: $mixedTimerStream subscribed, then one call of its unsubscribe (by
\* the program, or by the observer on halfSecTick >= 5): streamB (the
\* 1000 ms interval) is torn down first, then streamA; both timers are
\* cleared; the observer receives exactly one complete, in that step, and it
\* is the last thing it receives.
C10_UnsubscribeBThenA ==
  (pipe = "mixed" /\ SubscribeThenUnsubscribe(3)) =>
    /\ torn = << 2, 1 >>
    /\ ActiveTimers = {}
    /\ shouldComplete[3]
    /\ Len(Completes(log[1])) = 1
    /\ IsComplete(Last(log[1]))
    /\ Last(log[1]).at = calls[2].at

C10_Witness ==
  /\ pipe = "mixed"
  /\ SubscribeThenUnsubscribe(3)
  /\ calls[2].by = "program"
  /\ Len(Nexts(log[1])) >= 2
  /\ torn = << 2, 1 >>

\* C11: in every pipeline of map, filter and debounceTime over a source,
\* subscribe then one unsubscribe of the outermost stream reaches the
\* source's teardown: it ran once, no timer is left scheduled and no listener
\* registered, and the observer received its complete.  Over a source built
\* without an unsubscribe the call does nothing.
Chained == {"mapped", "filtered", "oneSec", "debounced", "chain"}
C11_UnsubscribeReachesSource ==
  SubscribeThenUnsubscribe(Root) =>
    /\ pipe \in Chained =>
         /\ torn = << 1 >>
         /\ ActiveTimers = {}
         /\ \A j \in DOMAIN subs : ~subs[j].listening
         /\ Len(Completes(log[1])) = 1
         /\ IsComplete(Last(log[1]))
    /\ pipe = "bare" =>
         /\ torn = << >>
         /\ log[1] = << >>
         /\ Len(subs) = 2
         /\ unsubscribe[1] = 0
         /\ unsubscribe[2] # 0

C11_Witness ==
  /\ pipe = "chain"
  /\ SubscribeThenUnsubscribe(Root)
  /\ Len(Nexts(log[1])) >= 1
  /\ subs[4]._tick >= 2
  /\ torn = << 1 >>

\* The number of times the source n of a pipeline subscribed once has fired.
Ticks(n) == IF SubsOf(n) = {} THEN 0 ELSE subs[CHOOSE j \in SubsOf(n) : TRUE]._tick
SubscribedAt == calls[CHOOSE i \in DOMAIN calls : calls[i].op = "subscribe"].at
TupleEntry(a, b, at) == [type |-> "next", value |-> << a, b >>, at |-> at]

\* C12: in $mixedTimerStream, while streamB has never emitted every emission
\* a of streamA is delivered at once as [a, undefined], one tuple per
\* emission, none held back; symmetrically [undefined, b] while streamA has
\* never emitted.
C12_UndefinedPartner ==
  (pipe = "mixed" /\ SubscribedOnce) =>
    LET nx == Nexts(log[1]) IN
    /\ Ticks(2) = 0 =>
         nx = [i \in 1..Ticks(1) |-> TupleEntry(i, Undef, SubscribedAt + i * HalfSecMs)]
    /\ Ticks(1) = 0 =>
         nx = [i \in 1..Ticks(2) |-> TupleEntry(Undef, i, SubscribedAt + i * OneSecMs)]

C12_Witness ==
  /\ pipe = "mixed"
  /\ SubscribedOnce
  /\ Ticks(1) >= 1
  /\ Ticks(2) = 0
  /\ Len(Nexts(log[1])) = Ticks(1)
  /\ Last(log[1]).at = now
  /\ IsNext(Last(log[1]))
  /\ Last(log[1]).value = << Ticks(1), Undef >>

C12_WitnessBFirst ==
  /\ pipe = "mixed"
  /\ SubscribedOnce
  /\ Ticks(1) = 0
  /\ Ticks(2) >= 1
  /\ IsNext(Last(log[1]))
  /\ Last(log[1]).value = << Undef, Ticks(2) >>

\* C13: fromTimer(ms) subscribed: the observer never receives any next other
\* than a single next(1), ms after subscribe; left alone it has received
\* exactly that once the delay has elapsed; an unsubscribe before the timer
\* fired cancels the callback, so no next is ever delivered, and the observer
\* receives complete.
C13_TimerOnce ==
  (pipe = "timer" /\ SubscribedOnce) =>
    LET nx == Nexts(log[1]) IN
    /\ Len(nx) <= 1
    /\ \A i \in DOMAIN nx :
         nx[i] = [type |-> "next", value |-> 1, at |-> SubscribedAt + TimerMs]
    /\ (EffectiveUnsubscribes = {} /\ now >= SubscribedAt + TimerMs /\ NoneDue)
         => log[1] = << [type |-> "next", value |-> 1, at |-> SubscribedAt + TimerMs] >>
    /\ (EffectiveUnsubscribes # {} /\ Ticks(1) = 0)
         => /\ nx = << >>
            /\ ActiveTimers = {}
            /\ Len(Completes(log[1])) >= 1

C13_Witness ==
  /\ pipe = "timer"
  /\ SubscribedOnce
  /\ EffectiveUnsubscribes = {}
  /\ ActiveTimers = {}
  /\ log[1] = << [type |-> "next", value |-> 1, at |-> TimerMs] >>

C13_WitnessCancelled ==
  /\ pipe = "timer"
  /\ SubscribeThenUnsubscribe(1)
  /\ ActiveTimers = {}
  /\ log[1] = << [type |-> "complete", value |-> Undef, at |-> 0] >>

\* C14: a pipeline that has been built but never subscribed has no timer
\* scheduled, no listener registered, no subscription on any of its streams
\* and has run no callback, whatever else was called on it meanwhile; once
\* subscribe has been called every stream of the pipeline has been subscribed.
NeverSubscribed == \A i \in DOMAIN calls : calls[i].op # "subscribe"
C14_LazyUntilSubscribe ==
  /\ NeverSubscribed =>
       /\ timers = << >>
       /\ subs = << >>
       /\ \A n \in NodeIds : unsubscribe[n] = 0 /\ _timer[n] = 0 /\ counter[n] = 0
       /\ \A k \in Observers : log[k] = << >>
       /\ torn = << >>
       /\ pushed = << >>
  /\ ~NeverSubscribed => \A n \in NodeIds : SubsOf(n) # {}

C14_Witness ==
  /\ pipe = "chain"
  /\ NeverSubscribed
  /\ Len(calls) = MaxUnsubscribe
  /\ calls[1].node = Root
  /\ timers = << >>
  /\ subs = << >>

\* C15: in $mixedTimerStream subscribed once, every firing of either interval
\* produces exactly one tuple, in the order of the firings: the log holds as
\* many tuples as the two intervals fired, each tuple differs from the one
\* before it (from [undefined, undefined] for the first) in exactly one
\* component, which carries the value just received at that instant, and the
\* last tuple carries the latest value of both sides.
TickOrUndef(k) == IF k = 0 THEN Undef ELSE k
\* How many times each side had fired when the tuple was built.
Counts(tuple) == << IF tuple[1] = Undef THEN 0 ELSE tuple[1],
                    IF tuple[2] = Undef THEN 0 ELSE tuple[2] >>
JustReceived(prev, e) ==
  \/ /\ e.value = << prev[1] + 1, prev[2] >>
     /\ e.at = SubscribedAt + e.value[1] * HalfSecMs
  \/ /\ e.value = << prev[1], prev[2] + 1 >>
     /\ e.at = SubscribedAt + e.value[2] * OneSecMs
C15_OneTuplePerNext ==
  (pipe = "mixed" /\ SubscribedOnce) =>
    LET nx == Nexts(log[1]) IN
    /\ Len(nx) = Ticks(1) + Ticks(2)
    /\ \A i \in DOMAIN nx :
         JustReceived(IF i = 1 THEN << 0, 0 >> ELSE Counts(nx[i - 1].value),
                      [value |-> Counts(nx[i].value), at |-> nx[i].at])
    /\ nx # << >> => Last(nx).value = << TickOrUndef(Ticks(1)), TickOrUndef(Ticks(2)) >>

C15_Witness ==
  /\ pipe = "mixed"
  /\ SubscribedOnce
  /\ UnsubscribeCalls = {}
  /\ Ticks(1) = 3
  /\ Ticks(2) = 1
  /\ Values(log[1]) = << << 1, Undef >>, << 2, Undef >>, << 2, 1 >>, << 3, 1 >> >>

\* C16: fromInterval subscribed twice before any unsubscribe: the slot holds
\* the second subscription's teardown, so unsubscribe calls complete the
\* second observer and clear the second timer only; the first timer stays
\* scheduled and the first observer goes on receiving next(1), next(2), ...
\* and never a complete.
SubscribedTwiceFirst ==
  /\ Len(calls) >= 2
  /\ calls[1].op = "subscribe"
  /\ calls[2].op = "subscribe"
C16_SecondSubscribeOverwrites ==
  (pipe = "interval" /\ SubscribedTwiceFirst) =>
    /\ unsubscribe[1] = 2
    /\ timers[1].active
    /\ Completes(log[1]) = << >>
    /\ Values(log[1]) = [i \in 1..subs[1]._tick |-> i]
    /\ Len(Completes(log[2])) = Len(calls) - 2
    /\ Len(calls) > 2 =>
         /\ ~timers[2].active
         /\ IsComplete(Last(log[2]))
         /\ \A i \in DOMAIN log[2] : IsNext(log[2][i]) => log[2][i].at <= calls[3].at

C16_Witness ==
  /\ pipe = "interval"
  /\ SubscribedTwiceFirst
  /\ Len(calls) = 3
  /\ IsComplete(Last(log[2]))
  /\ Len(log[1]) >= 2
  /\ Last(log[1]).at > calls[3].at
  /\ timers[1].active

\* C17: one debounced stream subscribed by two observers, both live, events
\* arriving after the second subscribe: each event reaches the first
\* subscription's next and then the second's, which cancels the delivery the
\* first has just scheduled.  So no pending delivery of the first survives
\* an event, the first observer receives nothing, and the second observer
\* receives the last value of each burst.
BothLive ==
  /\ Len(calls) = 2
  /\ calls[1].op = "subscribe"
  /\ calls[2].op = "subscribe"
  /\ \A i \in DOMAIN pushed : pushed[i].at > calls[2].at
DebounceSub(k) == CHOOSE j \in SubsOf(Root) : subs[j].observer = External(k)
C17_SharedDebounceTimer ==
  (pipe = "shared" /\ BothLive) =>
    /\ log[1] = << >>
    /\ \A t \in ActiveTimers : timers[t].sub = DebounceSub(2)
    /\ Cardinality({t \in DOMAIN timers : timers[t].sub = DebounceSub(1)}) = Len(pushed)
    /\ (pushed # << >> /\ now > Last(pushed).at + DebounceMs) =>
         /\ log[2] # << >>
         /\ Last(log[2]) = [type |-> "next", value |-> Last(pushed).value,
                            at |-> Last(pushed).at + DebounceMs]

C17_Witness ==
  /\ pipe = "shared"
  /\ BothLive
  /\ Len(pushed) = 2
  /\ pushed[1].value # pushed[2].value
  /\ now > pushed[2].at + DebounceMs
  /\ ActiveTimers = {}
  /\ log[1] = << >>
  /\ Values(log[2]) = << pushed[2].value >>

\* C18: a source subscribed once (fromInterval, fromTimer, or fromEvent and
\* fromInterval behind map or filter) and then unsubscribed k times: the
\* observer has received complete exactly k times, the teardown ran k times,
\* and from the first call on no timer is scheduled and no listener
\* registered.
Repeatable == {"interval", "timer", "mapped", "filtered", "oneSec"}
C18_CompletePerUnsubscribe ==
  (pipe \in Repeatable /\ SubscribedOnce /\ calls[1].op = "subscribe") =>
    /\ Len(Completes(log[1])) = Len(calls) - 1
    /\ Len(torn) = Len(calls) - 1
    /\ Len(calls) > 1 =>
         /\ ActiveTimers = {}
         /\ \A j \in DOMAIN subs : ~subs[j].listening
         /\ \A i \in DOMAIN log[1] : IsNext(log[1][i]) => log[1][i].at <= calls[2].at

C18_Witness ==
  /\ pipe = "interval"
  /\ SubscribedOnce
  /\ calls[1].op = "subscribe"
  /\ Len(calls) = 3
  /\ Len(Nexts(log[1])) >= 2
  /\ Len(Completes(log[1])) = 2
  /\ ~timers[1].active

C18_WitnessWrapped ==
  /\ pipe = "mapped"
  /\ SubscribedOnce
  /\ calls[1].op = "subscribe"
  /\ Len(calls) = 3
  /\ calls[2].node = Root
  /\ calls[3].node = Root
  /\ Len(Completes(log[1])) = 2

\* C19: in a withLatestFrom stream the flag stays set once the first
\* upstream complete has set it, and every upstream complete after the first
\* is delivered downstream, whichever side it comes from and whether or not
\* the combined stream was subscribed again in between: the observers have
\* received, together, one complete less than the upstream sides delivered.
RECURSIVE CompletesUpTo(_)
CompletesUpTo(k) ==
  IF k = 0 THEN 0 ELSE Len(Completes(log[k])) + CompletesUpTo(k - 1)
C19_FlagNeverReset ==
  pipe \in {"mixed", "paired"} =>
    /\ torn # << >> => shouldComplete[Root]
    /\ torn = << >> => ~shouldComplete[Root]
    /\ CompletesUpTo(Len(log)) = IF torn = << >> THEN 0 ELSE Len(torn) - 1

C19_Witness ==
  /\ pipe = "paired"
  /\ Len(calls) = 4
  /\ calls[1].op = "subscribe"
  /\ calls[2].op = "unsubscribe" /\ calls[2].node = Root
  /\ calls[3].op = "subscribe"
  /\ calls[4].op = "unsubscribe" /\ calls[4].node = 1
  /\ torn = << 2, 1, 1 >>
  /\ Len(Completes(log[1])) = 1
  /\ log[2] = << [type |-> "complete", value |-> Undef, at |-> 0] >>

C19_WitnessSameSide ==
  /\ pipe = "mixed"
  /\ torn = << 1, 1 >>
  /\ Len(Completes(log[1])) = 1

\* C20: for each debounceTime transformer, in every reachable state at most
\* one delayed delivery is pending (scheduled, not cancelled, not yet fired),
\* and it is the one the transformer's _timer refers to.
Debouncing == {"debounced", "shared", "chain"}
PendingDeliveries ==
  {t \in ActiveTimers : Node(subs[timers[t].sub].node).kind = "debounceTime"}
C20_OnePendingDelivery ==
  pipe \in Debouncing =>
    /\ Cardinality(PendingDeliveries) <= 1
    /\ \A t \in PendingDeliveries : _timer[Root] = t

C20_Witness ==
  /\ pipe = "debounced"
  /\ Len(pushed) = 2
  /\ Len(timers) = 2
  /\ ~timers[1].active
  /\ PendingDeliveries = {2}
  /\ log[1] = << >>
  /\ now < timers[2].deadline

====
